---- MODULE Spec2Model ----
(***************************************************************************)
(* godbm: a file-backed hash table (src/godbm.go).  The file is modelled   *)
(* byte for byte: a 4-byte header, the bucket directory, then the records, *)
(* each a 28-byte header, the key, the value and zero padding.             *)
(***************************************************************************)
EXTENDS Integers, Sequences, FiniteSets, TLC

VARIABLES
    created,    \* Create returned a database (db # nil)
    nbuckets,   \* HashDB.nbuckets: the table has 2^nbuckets buckets
    buckets,    \* HashDB.buckets: bucket array, indexed from 0
    file,       \* the bytes of HashDB.file
    synced,     \* the file image of the last Sync the storage confirmed
    hist,       \* the Set calls made so far: <<[key, value, err]>>
    nfaults,    \* the Set calls that met a storage fault
    last,       \* the last call: its arguments, its result, its I/O calls
    lastSum,    \* the sum of the last run of bucket: the digest of its key
    lastBucket, \* the bucket_id that run returned
    mu,         \* HashDB.mu: the thread that holds the lock, 0 when it is free
    threads,    \* per thread: where it is in Set or Get, and its locals
    serial      \* the file and bucket array had every call run alone, in
                \* the order in which the calls took the lock

dbVars == <<created, nbuckets, buckets, file, synced>>
callVars == <<hist, nfaults, last, lastSum, lastBucket>>
concVars == <<mu, threads, serial>>
vars == <<dbVars, callVars, concVars>>

\* ---------------------------------------------------------------- bounds

\* Create is called with an exponent in 0..MaxB
MaxB == 1
\* at most MaxSets calls of Set in a run on a reliable storage
MaxSets == 3
\* at most MaxFaultSets calls of Set in a run on a faulty storage, of which at
\* most MaxFaults meet a fault
MaxFaultSets == 2
MaxFaults == 1
\* the hasher is run with every exponent in 0..MaxHashB
MaxHashB == 10
\* at most MaxConcSets calls of Set in a run of concurrent threads
MaxConcSets == 2
\* the numbers of a record header stay below Limit: a header that holds a
\* larger one (read from a file that lost a write) is outside the model, and
\* no operation that reads it is taken
Limit == 4096

\* ------------------------------------------------------------ the inputs

\* keys and values are byte strings; they include the empty string, a zero
\* byte and a key that is a prefix of another
Keys == {<<>>, <<0, 0>>, <<1>>, <<1, 0>>}
Values == {<<>>, <<7, 0, 7, 7, 7>>}
\* the values set on a faulty storage
FaultValues == {<<7, 0, 7, 7, 7>>}
\* the threads that call Set and Get concurrently, and what they pass
Threads == {1, 2}
ConcKeys == {<<>>, <<0, 0>>, <<1>>}
ConcValues == {<<7, 0, 7, 7, 7>>}

\* the storage faults of one call: the system calls that fail when issued
FaultKinds == {"Seek", "ReadAt", "writeBuckets", "writeLink", "writeRecord", "Sync"}

\* ------------------------------------------------------------- encoding

\* binary.Write(_, binary.BigEndian, n) of a w-byte unsigned integer
RECURSIVE BigEndian(_, _)
BigEndian(n, w) ==
    IF w = 0 THEN <<>> ELSE Append(BigEndian(n \div 256, w - 1), n % 256)

\* binary.Read(_, binary.BigEndian, &n)
RECURSIVE Uint(_)
Uint(bs) ==
    IF bs = <<>> THEN 0
    ELSE Uint(SubSeq(bs, 1, Len(bs) - 1)) * 256 + bs[Len(bs)]

\* the concatenation of a sequence of byte strings
RECURSIVE Concat(_)
Concat(ss) == IF ss = <<>> THEN <<>> ELSE Head(ss) \o Concat(Tail(ss))

\* ------------------------------------------------------------- the file

\* n zero bytes
Zeros(n) == IF n <= 0 THEN <<>> ELSE [i \in 1..n |-> 0]

\* file.ReadAt(make([]byte, n), off): a read that ends past end-of-file fails
ReadAt(f, n, off) ==
    IF n = 0 THEN [data |-> <<>>, err |-> FALSE]
    ELSE IF off + n <= Len(f)
         THEN [data |-> SubSeq(f, off + 1, off + n), err |-> FALSE]
         ELSE [data |-> <<>>, err |-> TRUE]

\* file.WriteAt(b, off): overwrites or extends; a gap reads as zeros
WriteAt(f, b, off) ==
    IF b = <<>> THEN f
    ELSE IF off >= Len(f) THEN f \o Zeros(off - Len(f)) \o b
    ELSE SubSeq(f, 1, off) \o b \o SubSeq(f, off + Len(b) + 1, Len(f))

\* ------------------------------------------------------ bitwise helpers

\* x | y on unsigned integers
RECURSIVE BitOr(_, _)
BitOr(x, y) ==
    IF x = 0 THEN y
    ELSE IF y = 0 THEN x
    ELSE 2 * BitOr(x \div 2, y \div 2) + (IF x % 2 = 1 \/ y % 2 = 1 THEN 1 ELSE 0)

\* x & y on unsigned integers
RECURSIVE BitAnd(_, _)
BitAnd(x, y) ==
    IF x = 0 \/ y = 0 THEN 0
    ELSE 2 * BitAnd(x \div 2, y \div 2) + (IF x % 2 = 1 /\ y % 2 = 1 THEN 1 ELSE 0)

\* A uint32 is held as its two 16-bit halves <<high, low>>: the integers of
\* TLC end at 2^31 - 1, and nextPowerTwo is run on every uint32.

\* uint32(n) of an integer 0 <= n < 2^31
Uint32(n) == <<n \div 65536, n % 65536>>

\* the integer a uint32 below 2^31 stands for
IntOf(x) == x[1] * 65536 + x[2]

\* x + y on uint32: the carry out of bit 31 is lost
Add32(x, y) ==
    LET low == x[2] + y[2] IN
    <<(x[1] + y[1] + low \div 65536) % 65536, low % 65536>>

\* x-- on a uint32: 0 wraps to 2^32 - 1
Dec32(x) ==
    IF x[2] > 0 THEN <<x[1], x[2] - 1>> ELSE <<(x[1] + 65535) % 65536, 65535>>

\* x + 1 on a uint32: 2^32 - 1 wraps to 0
Inc32(x) ==
    IF x[2] < 65535 THEN <<x[1], x[2] + 1>> ELSE <<(x[1] + 1) % 65536, 0>>

\* x | y on uint32
Or32(x, y) == <<BitOr(x[1], y[1]), BitOr(x[2], y[2])>>

\* x >> s on a uint32: a shift by the width or more gives 0
Shr32(x, s) ==
    IF s >= 32 THEN <<0, 0>>
    ELSE IF s >= 16 THEN <<0, x[1] \div (2 ^ (s - 16))>>
    ELSE <<x[1] \div (2 ^ s),
           x[2] \div (2 ^ s) + (x[1] % (2 ^ s)) * (2 ^ (16 - s))>>

\* the loop of nextPowerTwo: for i := 1; i < 4*32; i <<= 1 { x |= x >> i }
RECURSIVE Smear(_, _)
Smear(x, i) == IF i < 4 * 32 THEN Smear(Or32(x, Shr32(x, i)), 2 * i) ELSE x

nextPowerTwo(x) == IF x = <<0, 0>> THEN <<0, 1>> ELSE Inc32(Smear(Dec32(x), 1))

\* nextPowerTwo(uint32(28 + len(key) + len(value))) for a key of keyl and a
\* value of vall bytes: the sum as a uint32, and the size
payload32(keyl, vall) == Add32(Add32(Uint32(28), Uint32(keyl)), Uint32(vall))

allocSize(keyl, vall) == nextPowerTwo(payload32(keyl, vall))

\* Compare with the shorter key first, keys of one length byte by byte
RECURSIVE CompareShortlex(_, _)
CompareShortlex(a, b) ==
    IF Len(a) < Len(b) THEN -1
    ELSE IF Len(a) > Len(b) THEN 1
    ELSE IF a = <<>> THEN 0
    ELSE IF Head(a) < Head(b) THEN -1
    ELSE IF Head(a) > Head(b) THEN 1
    ELSE CompareShortlex(Tail(a), Tail(b))

\* bytes.Compare(a, b): -1, 0 or 1 by byte-wise lexicographic order
RECURSIVE Compare(_, _)
Compare(a, b) ==
    IF a = <<>> /\ b = <<>> THEN 0
    ELSE IF a = <<>> THEN -1
    ELSE IF b = <<>> THEN 1
    ELSE IF Head(a) < Head(b) THEN -1
    ELSE IF Head(a) > Head(b) THEN 1
    ELSE Compare(Tail(a), Tail(b))

\* ------------------------------------------------------------ the hasher

\* hash.Sum() of crypto/md5 over the key: the digests of the model's keys
md5(key) ==
    CASE key = <<>>     -> <<212, 29, 140, 217, 143, 0, 178, 4,
                             233, 128, 9, 152, 236, 248, 66, 126>>
      [] key = <<0, 0>> -> <<196, 16, 63, 18, 45, 39, 103, 124,
                             157, 177, 68, 202, 225, 57, 74, 102>>
      [] key = <<1>>    -> <<85, 165, 64, 8, 173, 27, 165, 137,
                             170, 33, 13, 38, 41, 193, 223, 65>>
      [] key = <<1, 0>> -> <<37, 218, 173, 61, 158, 96, 180, 80,
                             67, 167, 12, 74, 183, 211, 177, 198>>

\* sum[i] << (8 * i) on a byte: the result is a byte again, the bits shifted
\* past bit 7 are lost
Shl8(x, s) == IF s >= 8 THEN 0 ELSE (x * (2 ^ s)) % 256

\* the loop of bucket: for i := 0; i < 8; i++ { bucket_id |= uint64(sum[i] << (8 * i)) }
\* (sum is indexed from 1 here, sum[i + 1] is Go's sum[i])
RECURSIVE OrBytes(_, _, _)
OrBytes(sum, i, acc) ==
    IF i < 8 THEN OrBytes(sum, i + 1, BitOr(acc, Shl8(sum[i + 1], 8 * i))) ELSE acc

\* Mask64 with one bit too many
Mask64Wide(s) == IF s >= 64 THEN 0 ELSE (2 ^ (64 - s + 1)) - 1

\* ((1 << 64) - 1) >> s on a uint64: 64 - s one bits, none once s >= 64
Mask64(s) == IF s >= 64 THEN 0 ELSE (2 ^ (64 - s)) - 1

\* bucket(key) for a digest sum and exponent nb (nb <= 64, so that the uint32
\* subtraction 64 - nb does not wrap)
bucketOf(sum, nb) == BitAnd(OrBytes(sum, 0, 0), Mask64(64 - nb))

bucket(key) == bucketOf(md5(key), nbuckets)

\* ------------------------------------------------------ the record codec

\* the length of a record's header: size, left, right, key length, value length
HeaderLen == 28

\* &record{offset: off}: the other fields are zero, the slices nil
EmptyRecord(off) ==
    [offset |-> off, size |-> 0, left |-> 0, right |-> 0,
     key |-> <<>>, value |-> <<>>, isnil |-> TRUE]

\* buffer.Bytes()[:size]: the buffer's bytes cut, or extended by the zero
\* bytes of its backing array, to size bytes
Resize(bs, size) ==
    IF size <= Len(bs) THEN SubSeq(bs, 1, size) ELSE bs \o Zeros(size - Len(bs))

\* encode with the two length fields in the wrong order
encodeSwapped(rec) ==
    Resize(Concat(<<BigEndian(rec.size, 4), BigEndian(rec.left, 8),
                    BigEndian(rec.right, 8), BigEndian(Len(rec.value), 4),
                    BigEndian(Len(rec.key), 4), rec.key, rec.value>>),
           rec.size)

\* the bytes writeRecord hands to WriteAt
encode(rec) ==
    Resize(Concat(<<BigEndian(rec.size, 4), BigEndian(rec.left, 8),
                    BigEndian(rec.right, 8), BigEndian(Len(rec.key), 4),
                    BigEndian(Len(rec.value), 4), rec.key, rec.value>>),
           rec.size)

\* writeRecord(rec) on file f; fail: the WriteAt fails and writes nothing
writeRecord(f, rec, fail) ==
    IF fail THEN [file |-> f, err |-> TRUE]
    ELSE [file |-> WriteAt(f, encode(rec), rec.offset), err |-> FALSE]

\* whether the big-endian number bs is below Limit
Narrow(bs) ==
    /\ \A i \in 1..(Len(bs) - 2) : bs[i] = 0
    /\ Uint(SubSeq(bs, Len(bs) - 1, Len(bs))) < Limit

\* whether the five numbers of the header h are below Limit
HeaderFits(h) ==
    /\ Narrow(SubSeq(h, 1, 4)) /\ Narrow(SubSeq(h, 5, 12))
    /\ Narrow(SubSeq(h, 13, 20)) /\ Narrow(SubSeq(h, 21, 24))
    /\ Narrow(SubSeq(h, 25, 28))

\* readRecord(rec) on file f: the record read, or an error and rec as far as
\* it was filled in (wide: the header is outside the model)
readRecord(f, rec, fail) ==
    LET h == ReadAt(f, HeaderLen, rec.offset) IN
    IF fail \/ h.err THEN [rec |-> rec, err |-> TRUE, wide |-> FALSE]
    ELSE IF ~HeaderFits(h.data) THEN [rec |-> rec, err |-> FALSE, wide |-> TRUE]
    ELSE
      LET keyl == Uint(SubSeq(h.data, 21, 24))
          vall == Uint(SubSeq(h.data, 25, 28))
          r1   == [rec EXCEPT !.size  = Uint(SubSeq(h.data, 1, 4)),
                              !.left  = Uint(SubSeq(h.data, 5, 12)),
                              !.right = Uint(SubSeq(h.data, 13, 20))]
          d    == ReadAt(f, keyl + vall, rec.offset + HeaderLen)
      IN  IF d.err THEN [rec |-> r1, err |-> TRUE, wide |-> FALSE]
          ELSE [rec |-> [r1 EXCEPT !.key   = SubSeq(d.data, 1, keyl),
                                   !.value = SubSeq(d.data, keyl + 1, keyl + vall),
                                   !.isnil = FALSE],
                err |-> FALSE, wide |-> FALSE]

\* ------------------------------------------------------ bucket directory

\* encodeBuckets with the entries in the reverse order
RECURSIVE encodeBucketsReversed(_, _, _)
encodeBucketsReversed(bs, i, n) ==
    IF i >= n THEN <<>>
    ELSE encodeBucketsReversed(bs, i + 1, n) \o BigEndian(bs[i], 8)

\* writeBuckets: Seek(0, 0), then nbuckets and the bucket array, big-endian;
\* fail: the writes fail and write nothing (the code does not look)
RECURSIVE encodeBuckets(_, _, _)
encodeBuckets(bs, i, n) ==
    IF i >= n THEN <<>> ELSE BigEndian(bs[i], 8) \o encodeBuckets(bs, i + 1, n)

\* writeBuckets without the write of the bucket array
writeBucketsHeaderOnly(f, nb, bs, fail) ==
    IF fail THEN f ELSE WriteAt(f, BigEndian(nb, 4), 0)

\* writeBuckets without the write of nbuckets
writeBucketsNoHeader(f, nb, bs, fail) ==
    IF fail THEN f
    ELSE WriteAt(f, encodeBuckets(bs, 0, Cardinality(DOMAIN bs)), 0)

writeBuckets(f, nb, bs, fail) ==
    IF fail THEN f
    ELSE WriteAt(f, BigEndian(nb, 4) \o encodeBuckets(bs, 0, Cardinality(DOMAIN bs)), 0)

\* --------------------------------------------------------- the tree walk

\* the body of binSearch(key, rec): the record is read and compared; again:
\* binSearch calls itself, on the child whose offset rec now holds
binStep(f, key, rec, fail) ==
    LET r == readRecord(f, rec, fail) IN
    IF r.err \/ r.wide
      THEN [cmp |-> 0, err |-> r.err, rec |-> r.rec, wide |-> r.wide,
            again |-> FALSE]
    ELSE
      LET cmp == Compare(key, r.rec.key) IN
      IF cmp < 0 /\ r.rec.left # 0
        THEN [cmp |-> cmp, err |-> FALSE, wide |-> FALSE, again |-> TRUE,
              rec |-> [r.rec EXCEPT !.offset = r.rec.left]]
      ELSE IF cmp > 0 /\ r.rec.right # 0
        THEN [cmp |-> cmp, err |-> FALSE, wide |-> FALSE, again |-> TRUE,
              rec |-> [r.rec EXCEPT !.offset = r.rec.right]]
      ELSE [cmp |-> cmp, err |-> FALSE, wide |-> FALSE, again |-> FALSE,
            rec |-> r.rec]

\* binSearch(key, rec): the comparison with the last record read and that
\* record (the match, or the parent to insert under)
RECURSIVE binSearch(_, _, _, _)
binSearch(f, key, rec, fail) ==
    LET s == binStep(f, key, rec, fail) IN
    IF s.again THEN binSearch(f, key, s.rec, fail)
    ELSE [cmp |-> s.cmp, err |-> s.err, rec |-> s.rec, wide |-> s.wide]

\* ------------------------------------------------------- the operations

\* one I/O call of an operation and whether it succeeded
Io(call, F) == [call |-> call, ok |-> call \notin F]

\* 1 << nbuckets: the length Create gives the bucket array
NumBuckets(nb) == 2 ^ nb

\* Create(path, nb) under the faults F: os.Create, then writeBuckets, whose
\* result Create does not look at
CreateOp(nb, F) ==
    IF "Create" \in F
      THEN [created |-> FALSE, buckets |-> <<>>, file |-> <<>>, err |-> TRUE,
            io |-> <<Io("Create", F)>>]
      ELSE LET bs == [i \in 0..(NumBuckets(nb) - 1) |-> 0] IN
           [created |-> TRUE, buckets |-> bs,
            file |-> writeBuckets(<<>>, nb, bs, "writeBuckets" \in F),
            err |-> FALSE,
            io |-> <<Io("Create", F), Io("writeBuckets", F)>>]

\* setLink with the greater key linked on the left too
setLinkLeft(f, s, offset, fail) ==
    IF s.cmp = 0 THEN f
    ELSE writeRecord(f, [s.rec EXCEPT !.left = offset], fail).file

\* setLink with an equal key linked like a greater one
setLinkEqual(f, s, offset, fail) ==
    IF s.cmp < 0
      THEN writeRecord(f, [s.rec EXCEPT !.left = offset], fail).file
    ELSE writeRecord(f, [s.rec EXCEPT !.right = offset], fail).file

\* setLink with both links of the parent set
setLinkBoth(f, s, offset, fail) ==
    IF s.cmp = 0 THEN f
    ELSE writeRecord(f, [s.rec EXCEPT !.left = offset, !.right = offset], fail).file

\* the switch of Set after the tree walk s: an equal key changes nothing, a
\* smaller or greater one is linked under the record the walk ended at, which
\* is written back; the result of that writeRecord is dropped
setLink(f, s, offset, fail) ==
    IF s.cmp = 0 THEN f
    ELSE IF s.cmp < 0
      THEN writeRecord(f, [s.rec EXCEPT !.left = offset], fail).file
    ELSE writeRecord(f, [s.rec EXCEPT !.right = offset], fail).file

\* the record Set writes for key and value at offset
newRecord(offset, key, value) ==
    [offset |-> offset,
     size   |-> IntOf(allocSize(Len(key), Len(value))),
     left   |-> 0, right |-> 0,
     key    |-> key, value |-> value, isnil |-> FALSE]

\* the end of Set: the new record is written, then the file is synced; the
\* error returned is writeRecord's, Sync's result is dropped
SetFinish(f, bs, new, io, F) ==
    LET w == writeRecord(f, new, "writeRecord" \in F) IN
    [file |-> w.file, buckets |-> bs, err |-> w.err,
     io |-> io \o <<Io("writeRecord", F), Io("Sync", F)>>,
     flushed |-> "Sync" \notin F, wide |-> FALSE]

\* SetOp without the test for an empty bucket: every record becomes the root
SetOpReroot(f, bs, nb, key, value, F) ==
    LET offset == Len(f)
        bs1    == [bs EXCEPT ![bucketOf(md5(key), nb)] = offset]
    IN  SetFinish(writeBuckets(f, nb, bs1, "writeBuckets" \in F), bs1,
                  newRecord(offset, key, value),
                  <<Io("Seek", F), Io("writeBuckets", F)>>, F)

\* Set(key, value) on file f and bucket array bs under the faults F
SetOp(f, bs, nb, key, value, F) ==
    IF "Seek" \in F
      THEN [file |-> f, buckets |-> bs, err |-> TRUE,
            io |-> <<Io("Seek", F)>>, flushed |-> FALSE, wide |-> FALSE]
    ELSE
      LET offset    == Len(f)
          bucket_id == bucketOf(md5(key), nb)
          new       == newRecord(offset, key, value)
      IN
      IF bs[bucket_id] = 0
        THEN LET bs1 == [bs EXCEPT ![bucket_id] = offset] IN
             SetFinish(writeBuckets(f, nb, bs1, "writeBuckets" \in F), bs1, new,
                       <<Io("Seek", F), Io("writeBuckets", F)>>, F)
      ELSE
        \* hash collision
        LET s == binSearch(f, key, EmptyRecord(bs[bucket_id]), "ReadAt" \in F) IN
        IF s.err \/ s.wide
          THEN [file |-> f, buckets |-> bs, err |-> s.err,
                io |-> <<Io("Seek", F), [call |-> "ReadAt", ok |-> FALSE]>>,
                flushed |-> FALSE, wide |-> s.wide]
        ELSE SetFinish(setLink(f, s, offset, "writeLink" \in F), bs, new,
                       <<Io("Seek", F), Io("ReadAt", F)>>
                         \o (IF s.cmp = 0 THEN <<>> ELSE <<Io("writeLink", F)>>),
                       F)

\* GetOp without the test of cmp: the record the walk ended at is returned
GetOpAny(f, bs, nb, key, F) ==
    LET offset == bs[bucketOf(md5(key), nb)] IN
    IF offset = 0
      THEN [value |-> <<>>, isnil |-> TRUE, err |-> FALSE, io |-> <<>>,
            wide |-> FALSE]
    ELSE
      LET s == binSearch(f, key, EmptyRecord(offset), "ReadAt" \in F) IN
      IF s.wide
        THEN [value |-> <<>>, isnil |-> TRUE, err |-> FALSE, io |-> <<>>,
              wide |-> TRUE]
      ELSE IF s.err
        THEN [value |-> <<>>, isnil |-> TRUE, err |-> s.err,
              io |-> <<[call |-> "ReadAt", ok |-> ~s.err]>>, wide |-> FALSE]
        ELSE [value |-> s.rec.value, isnil |-> s.rec.isnil, err |-> FALSE,
              io |-> <<[call |-> "ReadAt", ok |-> TRUE]>>, wide |-> FALSE]

\* GetOp returning a nil slice for a record whose value is empty
GetOpNilEmpty(f, bs, nb, key, F) ==
    LET offset == bs[bucketOf(md5(key), nb)] IN
    IF offset = 0
      THEN [value |-> <<>>, isnil |-> TRUE, err |-> FALSE, io |-> <<>>,
            wide |-> FALSE]
    ELSE
      LET s == binSearch(f, key, EmptyRecord(offset), "ReadAt" \in F) IN
      IF s.wide
        THEN [value |-> <<>>, isnil |-> TRUE, err |-> FALSE, io |-> <<>>,
              wide |-> TRUE]
      ELSE IF s.err \/ s.cmp # 0
        THEN [value |-> <<>>, isnil |-> TRUE, err |-> s.err,
              io |-> <<[call |-> "ReadAt", ok |-> ~s.err]>>, wide |-> FALSE]
        ELSE [value |-> s.rec.value, isnil |-> s.rec.value = <<>>, err |-> FALSE,
              io |-> <<[call |-> "ReadAt", ok |-> TRUE]>>, wide |-> FALSE]

\* GetOp returning, with a read error, the value left in rec
GetOpKeepValue(f, bs, nb, key, F) ==
    LET offset == bs[bucketOf(md5(key), nb)] IN
    IF offset = 0
      THEN [value |-> <<>>, isnil |-> TRUE, err |-> FALSE, io |-> <<>>,
            wide |-> FALSE]
    ELSE
      LET s == binSearch(f, key, EmptyRecord(offset), "ReadAt" \in F) IN
      IF s.wide
        THEN [value |-> <<>>, isnil |-> TRUE, err |-> FALSE, io |-> <<>>,
              wide |-> TRUE]
      ELSE IF ~s.err /\ s.cmp # 0
        THEN [value |-> <<>>, isnil |-> TRUE, err |-> FALSE,
              io |-> <<[call |-> "ReadAt", ok |-> TRUE]>>, wide |-> FALSE]
        ELSE [value |-> s.rec.value, isnil |-> s.rec.isnil, err |-> s.err,
              io |-> <<[call |-> "ReadAt", ok |-> ~s.err]>>, wide |-> FALSE]

\* Get(key): the value (a nil slice when none is returned) and the error
GetOp(f, bs, nb, key, F) ==
    LET offset == bs[bucketOf(md5(key), nb)] IN
    IF offset = 0
      THEN [value |-> <<>>, isnil |-> TRUE, err |-> FALSE, io |-> <<>>,
            wide |-> FALSE]
    ELSE
      LET s == binSearch(f, key, EmptyRecord(offset), "ReadAt" \in F) IN
      IF s.wide
        THEN [value |-> <<>>, isnil |-> TRUE, err |-> FALSE, io |-> <<>>,
              wide |-> TRUE]
      ELSE IF s.err \/ s.cmp # 0
        THEN [value |-> <<>>, isnil |-> TRUE, err |-> s.err,
              io |-> <<[call |-> "ReadAt", ok |-> ~s.err]>>, wide |-> FALSE]
        ELSE [value |-> s.rec.value, isnil |-> s.rec.isnil, err |-> FALSE,
              io |-> <<[call |-> "ReadAt", ok |-> TRUE]>>, wide |-> FALSE]

\* ------------------------------------------------------------ the actions

\* a thread that is in no call
Idle ==
    [pc |-> "idle", op |-> "none", key |-> <<>>, value |-> <<>>, offset |-> 0,
     rec |-> EmptyRecord(0), cmp |-> 0, err |-> FALSE,
     ret |-> [value |-> <<>>, isnil |-> TRUE],
     expect |-> [value |-> <<>>, isnil |-> TRUE, err |-> FALSE]]

\* the state after Create(path, nb) under the faults F
Create(nb, F) ==
    LET c == CreateOp(nb, F) IN
    /\ created = c.created
    /\ nbuckets = nb
    /\ buckets = c.buckets
    /\ file = c.file
    /\ synced = <<>>
    /\ hist = <<>>
    /\ nfaults = 0
    /\ last = [op |-> "Create", key |-> <<>>, value |-> <<>>, isnil |-> TRUE,
               err |-> c.err, io |-> c.io]
    /\ lastSum = <<>>
    /\ lastBucket = 0
    /\ mu = 0
    /\ threads = [t \in Threads |-> Idle]
    /\ serial = [file |-> c.file, buckets |-> c.buckets]

Set(key, value, F) ==
    /\ created
    /\ \E r \in {SetOp(file, buckets, nbuckets, key, value, F)} :
       /\ ~r.wide
       /\ file' = r.file
       /\ buckets' = r.buckets
       /\ synced' = IF r.flushed THEN r.file ELSE synced
       /\ hist' = Append(hist, [key |-> key, value |-> value, err |-> r.err])
       /\ last' = [op |-> "Set", key |-> key, value |-> value, isnil |-> FALSE,
                   err |-> r.err, io |-> r.io]
       /\ nfaults' = IF F = {} THEN nfaults ELSE nfaults + 1
    /\ lastSum' = md5(key)
    /\ lastBucket' = bucket(key)
    /\ UNCHANGED <<created, nbuckets, concVars>>

Get(key, F) ==
    /\ created
    /\ \E r \in {GetOp(file, buckets, nbuckets, key, F)} :
       /\ ~r.wide
       /\ last' = [op |-> "Get", key |-> key, value |-> r.value, isnil |-> r.isnil,
                err |-> r.err, io |-> r.io]
    /\ lastSum' = md5(key)
    /\ lastBucket' = bucket(key)
    /\ UNCHANGED <<dbVars, hist, nfaults, concVars>>

\* a reliable storage: no call fails
Init == \E nb \in 0..MaxB : Create(nb, {})

Next ==
    \/ \E key \in Keys, value \in Values :
          Len(hist) < MaxSets /\ Set(key, value, {})
    \/ \E key \in Keys : Get(key, {})

Spec == Init /\ [][Next]_vars

\* the calls of Set alone: Get changes neither the file nor the bucket array,
\* so these runs reach every file and bucket array that the runs of Spec reach
NextSet ==
    \E key \in Keys, value \in Values :
        Len(hist) < MaxSets /\ Set(key, value, {})

SpecSet == Init /\ [][NextSet]_vars

\* a faulty storage: any one system call of an operation may fail
Faults == {{}} \cup {{k} : k \in FaultKinds}

InitFault == \E nb \in 0..MaxB, F \in {{}, {"Create"}, {"writeBuckets"}} : Create(nb, F)

NextFault ==
    \/ \E key \in Keys, value \in FaultValues, F \in Faults :
          /\ Len(hist) < MaxFaultSets
          /\ F # {} => nfaults < MaxFaults
          /\ Set(key, value, F)
    \/ \E key \in Keys, F \in {{}, {"ReadAt"}} : Get(key, F)

SpecFault == InitFault /\ [][NextFault]_vars

\* the hasher alone: bucket is run once on the first 8 bytes of any digest
\* made of the bytes of ByteSamples, for any exponent
ByteSamples == {0, 1, 165, 255}
Digests == {a \o b : a \in [1..3 -> ByteSamples], b \in [1..5 -> {0, 255}]}

InitBucket ==
    /\ \E nb \in 0..MaxHashB :
          /\ nbuckets = nb
          /\ last = [op |-> "Create", key |-> <<>>, value |-> <<>>,
                     isnil |-> TRUE, err |-> FALSE, io |-> <<>>]
    /\ lastSum \in Digests
    /\ created = TRUE /\ buckets = <<>> /\ file = <<>> /\ synced = <<>>
    /\ hist = <<>> /\ nfaults = 0 /\ lastBucket = 0
    /\ mu = 0 /\ threads = [t \in Threads |-> Idle]
    /\ serial = [file |-> <<>>, buckets |-> <<>>]

Bucket ==
    /\ last.op = "Create"
    /\ lastBucket' = bucketOf(lastSum, nbuckets)
    /\ last' = [last EXCEPT !.op = "bucket"]
    /\ UNCHANGED <<dbVars, hist, nfaults, lastSum, concVars>>

SpecBucket == InitBucket /\ [][Bucket]_vars

\* the size computation alone: it is run once on the lengths of a key and a
\* value, each any length a slice can have; the samples are short lengths,
\* lengths around a power of two and the longest ones
LenSamples ==
    {0, 1, 2, 3, 4, 5, 36, 37, 100, 65508, 2 ^ 30, 2147483620, 2147483621,
     2147483647}

InitSize ==
    /\ \E keyl \in LenSamples, vall \in LenSamples :
          last = [op |-> "Create", keyl |-> keyl, vall |-> vall,
                  x |-> <<0, 0>>, size |-> <<0, 0>>]
    /\ nbuckets = 0 /\ lastSum = <<>>
    /\ created = TRUE /\ buckets = <<>> /\ file = <<>> /\ synced = <<>>
    /\ hist = <<>> /\ nfaults = 0 /\ lastBucket = 0
    /\ mu = 0 /\ threads = [t \in Threads |-> Idle]
    /\ serial = [file |-> <<>>, buckets |-> <<>>]

Size ==
    /\ last.op = "Create"
    /\ last' = [last EXCEPT !.op = "nextPowerTwo",
                            !.x = payload32(last.keyl, last.vall),
                            !.size = allocSize(last.keyl, last.vall)]
    /\ UNCHANGED <<dbVars, hist, nfaults, lastSum, lastBucket, concVars>>

SpecSize == InitSize /\ [][Size]_vars

\* ---------------------------------------------------- concurrent threads

\* Set and Get step by step: every access to the file, to the bucket array
\* or to the lock is a step of its own, and the steps of the threads
\* interleave.  No call fails here.

\* the calls of Set that have started
SetsStarted ==
    Len(hist) + Cardinality({t \in Threads : threads[t].op = "Set"
                                              /\ threads[t].pc = "Lock"})

\* a thread calls Set(key, value) or Get(key)
Call(t, op, key, value) ==
    /\ created
    /\ threads[t].pc = "idle"
    /\ op = "Set" => SetsStarted < MaxConcSets
    /\ threads' = [threads EXCEPT ![t] =
                     [Idle EXCEPT !.pc = "Lock", !.op = op, !.key = key,
                                  !.value = value]]
    /\ UNCHANGED <<dbVars, callVars, mu, serial>>

\* Acquire with Get not waiting for the lock
AcquireGetFree(t) == threads[t].op = "Get" \/ mu = 0

\* db.mu.Lock() returns once no thread holds the lock
Acquire(t) == mu = 0

\* db.mu.Lock(): the thread takes the lock; from here the call's result is
\* what the call gives when run alone on the file and bucket array of now
Lock(t) ==
    /\ threads[t].pc = "Lock"
    /\ Acquire(t)
    /\ mu' = t
    /\ LET th == threads[t] IN
       IF th.op = "Set"
         THEN \E r \in {SetOp(file, buckets, nbuckets, th.key, th.value, {})} :
                /\ ~r.wide
                /\ serial' = [file |-> r.file, buckets |-> r.buckets]
                /\ hist' = Append(hist, [key |-> th.key, value |-> th.value,
                                          err |-> r.err])
                /\ threads' = [threads EXCEPT ![t].pc = "Seek",
                                 ![t].expect = [value |-> <<>>, isnil |-> TRUE,
                                                err |-> r.err]]
         ELSE \E r \in {GetOp(file, buckets, nbuckets, th.key, {})} :
                /\ ~r.wide
                /\ threads' = [threads EXCEPT ![t].pc = "Root",
                                 ![t].expect = [value |-> r.value,
                                                isnil |-> r.isnil, err |-> r.err]]
                /\ UNCHANGED <<serial, hist>>
    /\ UNCHANGED <<dbVars, nfaults, last, lastSum, lastBucket>>

\* Set: offset, err := db.file.Seek(0, 2)
Seek(t) ==
    /\ threads[t].pc = "Seek"
    /\ threads' = [threads EXCEPT ![t].offset = Len(file), ![t].pc = "Bucket"]
    /\ UNCHANGED <<dbVars, callVars, mu, serial>>

\* Set: the bucket is looked up; an empty one gets the offset, another one is
\* searched from its root
SetBucket(t) ==
    /\ threads[t].pc = "Bucket"
    /\ LET th == threads[t]
           b  == bucket(th.key)
       IN  /\ lastSum' = md5(th.key)
           /\ lastBucket' = b
           /\ IF buckets[b] = 0
                THEN /\ buckets' = [buckets EXCEPT ![b] = th.offset]
                     /\ threads' = [threads EXCEPT ![t].pc = "writeBuckets"]
                ELSE /\ buckets' = buckets
                     /\ threads' = [threads EXCEPT ![t].pc = "binSearch",
                                      ![t].rec = EmptyRecord(buckets[b])]
    /\ UNCHANGED <<created, nbuckets, file, synced, hist, nfaults, last, mu,
                   serial>>

\* Set: db.writeBuckets()
WriteBuckets(t) ==
    /\ threads[t].pc = "writeBuckets"
    /\ file' = writeBuckets(file, nbuckets, buckets, FALSE)
    /\ threads' = [threads EXCEPT ![t].pc = "writeRecord"]
    /\ UNCHANGED <<created, nbuckets, buckets, synced, callVars, mu, serial>>

\* Get: offset := db.buckets[db.bucket(key)]; an empty bucket returns nil, nil
Root(t) ==
    /\ threads[t].pc = "Root"
    /\ LET th == threads[t]
           b  == bucket(th.key)
       IN  /\ lastSum' = md5(th.key)
           /\ lastBucket' = b
           /\ IF buckets[b] = 0
                THEN threads' = [threads EXCEPT ![t].pc = "Unlock",
                                   ![t].ret = [value |-> <<>>, isnil |-> TRUE],
                                   ![t].err = FALSE]
                ELSE threads' = [threads EXCEPT ![t].pc = "binSearch",
                                   ![t].rec = EmptyRecord(buckets[b])]
    /\ UNCHANGED <<dbVars, hist, nfaults, last, mu, serial>>

\* Set and Get: one call of binSearch, which reads one record; after the last
\* one Set goes on to its switch and Get returns
BinSearch(t) ==
    /\ threads[t].pc = "binSearch"
    /\ LET th == threads[t] IN
       \E s \in {binStep(file, th.key, th.rec, FALSE)} :
         /\ ~s.wide
         /\ threads' =
              IF s.again THEN [threads EXCEPT ![t].rec = s.rec]
              ELSE IF s.err
                THEN [threads EXCEPT ![t].rec = s.rec, ![t].err = TRUE,
                                     ![t].pc = "Unlock"]
              ELSE IF th.op = "Set"
                THEN [threads EXCEPT ![t].rec = s.rec, ![t].cmp = s.cmp,
                                     ![t].pc = "setLink"]
              ELSE IF s.cmp # 0
                THEN [threads EXCEPT ![t].rec = s.rec, ![t].cmp = s.cmp,
                                     ![t].pc = "Unlock"]
              ELSE [threads EXCEPT ![t].rec = s.rec, ![t].cmp = s.cmp,
                                   ![t].pc = "Unlock",
                                   ![t].ret = [value |-> s.rec.value,
                                               isnil |-> s.rec.isnil]]
    /\ UNCHANGED <<dbVars, callVars, mu, serial>>

\* Set: the switch on cmp, which writes the parent back with its new link
SetLink(t) ==
    /\ threads[t].pc = "setLink"
    /\ LET th == threads[t] IN
       file' = setLink(file, [cmp |-> th.cmp, rec |-> th.rec], th.offset, FALSE)
    /\ threads' = [threads EXCEPT ![t].pc = "writeRecord"]
    /\ UNCHANGED <<created, nbuckets, buckets, synced, callVars, mu, serial>>

\* Set: err = db.writeRecord(&record{...})
WriteRecord(t) ==
    /\ threads[t].pc = "writeRecord"
    /\ LET th == threads[t] IN
       \E w \in {writeRecord(file, newRecord(th.offset, th.key, th.value), FALSE)} :
         /\ file' = w.file
         /\ threads' = [threads EXCEPT ![t].pc = "Sync", ![t].err = w.err]
    /\ UNCHANGED <<created, nbuckets, buckets, synced, callVars, mu, serial>>

\* Set: db.file.Sync()
Sync(t) ==
    /\ threads[t].pc = "Sync"
    /\ synced' = file
    /\ threads' = [threads EXCEPT ![t].pc = "Unlock"]
    /\ UNCHANGED <<created, nbuckets, buckets, file, callVars, mu, serial>>

\* the deferred db.mu.Unlock(), and the return
Unlock(t) ==
    /\ threads[t].pc = "Unlock"
    /\ mu' = 0
    /\ threads' = [threads EXCEPT ![t] = Idle]
    /\ UNCHANGED <<dbVars, callVars, serial>>

NextConc ==
    \/ \E t \in Threads, key \in ConcKeys, value \in ConcValues :
          Call(t, "Set", key, value)
    \/ \E t \in Threads, key \in ConcKeys : Call(t, "Get", key, <<>>)
    \/ \E t \in Threads :
          \/ Lock(t) \/ Seek(t) \/ SetBucket(t) \/ WriteBuckets(t) \/ Root(t)
          \/ BinSearch(t) \/ SetLink(t) \/ WriteRecord(t) \/ Sync(t) \/ Unlock(t)

SpecConc == Init /\ [][NextConc]_vars

\* ------------------------------------------------- the history of a run

\* the keys passed to Set so far
HistKeys == {hist[i].key : i \in 1..Len(hist)}

\* the first call of Set with key k
FirstSet(k) ==
    hist[CHOOSE i \in 1..Len(hist) :
           hist[i].key = k /\ \A j \in 1..(i - 1) : hist[j].key # k]

\* the last call of Set
LastSet == hist[Len(hist)]

\* the last Set's key was not passed to Set before it
LastSetIsFirst == \A j \in 1..(Len(hist) - 1) : hist[j].key # LastSet.key

\* the last call is a Get of the key of the last Set, which returned ok: no
\* Set lies between the two, and a Get changes nothing
GetAfterSet ==
    /\ last.op = "Get" /\ hist # <<>>
    /\ last.key = LastSet.key /\ ~LastSet.err

\* the bucket of key k
BucketOf(k) == bucketOf(md5(k), nbuckets)

\* ------------------------------------------------- the trees of the file

\* the record stored at offset off of file f, as readRecord reads it
RecordAt(f, off) == readRecord(f, EmptyRecord(off), FALSE)

\* whether a whole record is stored at offset off of file f: its header and
\* its key and value can be read, and the size it was allocated holds them
\* and lies inside the file
Written(f, off) ==
    LET r == RecordAt(f, off) IN
    /\ ~r.err /\ ~r.wide
    /\ HeaderLen + Len(r.rec.key) + Len(r.rec.value) <= r.rec.size
    /\ off + r.rec.size <= Len(f)

\* the links of the record at offset off of file f that are not 0
Links(f, off) ==
    LET r == RecordAt(f, off) IN
    IF r.err \/ r.wide THEN {} ELSE {r.rec.left, r.rec.right} \ {0}

\* the offsets reached from offset off (0: none) over at most depth links,
\* off included
RECURSIVE Reach(_, _, _)
Reach(f, off, depth) ==
    IF off = 0 THEN {}
    ELSE IF depth = 0 THEN {off}
    ELSE {off} \cup UNION {Reach(f, o, depth - 1) : o \in Links(f, off)}

\* no tree is deeper than the number of records, one for each call of Set
Depth == Len(hist)

\* the offsets of the records of bucket b's tree
Tree(f, bs, b) == Reach(f, bs[b], Depth)

\* the keys stored at the offsets of the set offs
KeysAt(f, offs) == {RecordAt(f, o).rec.key : o \in offs}

\* the exponent stored in the header of file f
Header(f) == Uint(SubSeq(f, 1, 4))

\* the entry of bucket b in the directory of file f
DirEntry(f, b) == Uint(SubSeq(f, 4 + 8 * b + 1, 4 + 8 * b + 8))

\* a is before b in byte-wise lexicographic order: a is a proper prefix of
\* b, or a has the smaller byte where the two first differ
LexLess(a, b) ==
    \E i \in 1..(Len(b)) :
        /\ i <= Len(a) + 1
        /\ SubSeq(a, 1, i - 1) = SubSeq(b, 1, i - 1)
        /\ i <= Len(a) => a[i] < b[i]

\* ------------------------------------------------------------ the claims

\* C1 as stated: a Get(k) right after a Set(k, v) that returned ok returns
\* exactly v and no error, whether or not k was set before
C1_RoundTrip ==
    GetAfterSet =>
        ~last.err /\ ~last.isnil /\ last.value = LastSet.value

\* C1 amended: a Get(k) right after a Set(k, v) that returned ok returns no
\* error and a present value; the value is exactly v when k was not set
\* before, and the value of the first Set of k when it was
C1_RoundTripFirstSet ==
    GetAfterSet =>
        /\ ~last.err /\ ~last.isnil
        /\ last.value = FirstSet(last.key).value
        /\ LastSetIsFirst => last.value = LastSet.value

\* C1 witness: after two Sets of other keys, the empty key was set to the
\* empty value for the first time and read back with Get
C1_Witness ==
    /\ GetAfterSet /\ LastSetIsFirst /\ Len(hist) = 3
    /\ last.key = <<>> /\ LastSet.value = <<>>
    /\ last.value = <<>> /\ ~last.isnil /\ ~last.err

\* the Sets so far put N > 1 pairwise distinct keys into one bucket
Collision ==
    /\ Len(hist) > 1
    /\ \A i, j \in 1..Len(hist) :
          /\ i # j => hist[i].key # hist[j].key
          /\ BucketOf(hist[i].key) = BucketOf(hist[j].key)
          /\ ~hist[i].err

\* C2: after N > 1 pairwise distinct keys of one bucket were inserted, in any
\* order, Get of each of them returns the value it was inserted with
C2_Collision ==
    (Collision /\ last.op = "Get" /\ last.key \in HistKeys) =>
        ~last.err /\ ~last.isnil /\ last.value = FirstSet(last.key).value

\* C2 witness: three keys of one bucket, the greatest first, and a Get that
\* found the last of them two links below the root
C2_Witness ==
    /\ Collision /\ Len(hist) = 3 /\ last.op = "Get" /\ nbuckets = 0
    /\ hist[1].key = <<1, 0>> /\ hist[2].key = <<>> /\ hist[3].key = <<0, 0>>
    /\ last.key = <<0, 0>> /\ ~last.isnil /\ last.value = hist[3].value

\* C3: Get of a key never passed to Set returns the not-found result: a nil
\* value and no error
C3_Absence ==
    (last.op = "Get" /\ last.key \notin HistKeys) =>
        last.isnil /\ last.value = <<>> /\ ~last.err

\* C3 witness: a Get of a key never set, whose bucket holds two other keys
C3_Witness ==
    /\ last.op = "Get" /\ last.key \notin HistKeys /\ last.isnil
    /\ Cardinality({k \in HistKeys : BucketOf(k) = BucketOf(last.key)}) = 2

\* the result of Get for a key that was never inserted
NotFound == [value |-> <<>>, isnil |-> TRUE, err |-> FALSE]

\* the result of the last call
LastResult == [value |-> last.value, isnil |-> last.isnil, err |-> last.err]

\* C4 as stated: after Set(k, empty value) returned ok, Get(k) returns a
\* present, zero-length value that differs from the not-found result
C4_EmptyValue ==
    (GetAfterSet /\ LastSet.value = <<>>) =>
        ~last.isnil /\ last.value = <<>> /\ LastResult # NotFound

\* C4 amended: after a Set(k, empty value) that returned ok, of a key k that
\* was not set before, Get(k) returns a present, zero-length value that
\* differs from the not-found result
C4_EmptyValueFirstSet ==
    (GetAfterSet /\ LastSet.value = <<>> /\ LastSetIsFirst) =>
        ~last.isnil /\ last.value = <<>> /\ ~last.err /\ LastResult # NotFound

\* C4 witness: the empty value was set for a new key in a bucket that holds
\* another key, and read back
C4_Witness ==
    /\ GetAfterSet /\ LastSet.value = <<>> /\ LastSetIsFirst
    /\ \E i \in 1..(Len(hist) - 1) : BucketOf(hist[i].key) = BucketOf(last.key)
    /\ ~last.isnil /\ last.value = <<>>

\* every key set so far is found by Get, with the value of its first Set
AllFound(f, bs) ==
    \A k \in HistKeys :
        LET r == GetOp(f, bs, nbuckets, k, {}) IN
        ~r.err /\ ~r.isnil /\ r.value = FirstSet(k).value

\* the step is a Set of a key that was set before
ReSet ==
    /\ last'.op = "Set" /\ Len(hist') = Len(hist) + 1
    /\ last'.key \in HistKeys

\* C5: a Set of a key already present appends one record at end-of-file and
\* changes no byte before it (no directory entry, no link of a record) nor
\* the bucket array; afterwards every key set so far is still found by Get,
\* with the value of its first Set
C5_ReSet ==
    [][ReSet =>
          /\ Len(file') = Len(file)
                + IntOf(nextPowerTwo(Uint32(HeaderLen + Len(last'.key)
                                                   + Len(last'.value))))
          /\ SubSeq(file', 1, Len(file)) = file
          /\ buckets' = buckets
          /\ AllFound(file', buckets')]_vars

\* C5 witness: a key was set twice with two values, and a Get after the
\* second Set returned the first
C5_Witness ==
    /\ GetAfterSet /\ ~LastSetIsFirst
    /\ LastSet.value # FirstSet(last.key).value
    /\ last.value = FirstSet(last.key).value /\ ~last.isnil

\* the calls that write to the file
WriteCalls == {"writeBuckets", "writeLink", "writeRecord"}

\* C7: when a file write fails during Create or Set, the operation returns an
\* error
C7_ErrorPropagation ==
    (/\ last.op \in {"Create", "Set"}
     /\ \E i \in 1..Len(last.io) :
           last.io[i].call \in WriteCalls /\ ~last.io[i].ok)
    => last.err

\* C8: in every Set the flush is issued after the last write and before the
\* return, and a Set that returns ok had its flush confirmed: the file on
\* stable storage is the file as written
C8_Durability ==
    last.op = "Set" =>
        /\ \A i \in 1..Len(last.io) :
              last.io[i].call \in WriteCalls =>
                  /\ last.io[Len(last.io)].call = "Sync"
                  /\ i < Len(last.io)
        /\ ~last.err =>
              /\ last.io[Len(last.io)] = [call |-> "Sync", ok |-> TRUE]
              /\ synced = file

\* bit j of the unsigned integer assembled little-endian from the bytes of
\* digest d (d[1] is the least significant byte)
DigestBit(d, j) == (d[(j \div 8) + 1] \div (2 ^ (j % 8))) % 2

\* the lowest b bits of that integer
RECURSIVE LowBits(_, _)
LowBits(d, b) ==
    IF b = 0 THEN 0 ELSE LowBits(d, b - 1) + DigestBit(d, b - 1) * (2 ^ (b - 1))

\* C9: bucket(key) is the lowest B bits of the unsigned 64-bit integer
\* assembled little-endian from the first 8 bytes of the key's digest
C9_BucketRule ==
    last.op = "bucket" => lastBucket = LowBits(lastSum, nbuckets)

Inside == {t \in Threads : threads[t].pc \notin {"idle", "Lock"}}

\* the threads in a Set that is past its first write, to the bucket array or
\* to the file, and before its last
HalfWritten ==
    {t \in Threads : threads[t].pc \in {"writeBuckets", "writeRecord"}}

\* the threads in a Get that reads the bucket array or a record
Reading == {t \in Threads : threads[t].op = "Get"
                             /\ threads[t].pc \in {"Root", "binSearch"}}

\* C6: at most one thread is between the lock and the unlock, and it is the
\* holder of the lock; no Get reads while a Set has issued only some of its
\* writes; and every call returns what it returns when the calls run one
\* after the other in the order in which they took the lock, which also
\* gives the file and the bucket array once the lock is free
C6_Exclusive ==
    /\ Cardinality(Inside) <= 1
    /\ \A t \in Inside : mu = t
    /\ HalfWritten # {} => Reading = {}
    /\ \A t \in Threads :
          threads[t].pc = "Unlock" =>
              [value |-> threads[t].ret.value, isnil |-> threads[t].ret.isnil,
               err |-> threads[t].err] = threads[t].expect
    /\ mu = 0 => file = serial.file /\ buckets = serial.buckets

\* C6 witness: a Get is about to return the value a Set of the other thread
\* stored, while that thread waits for the lock with its next Set
C6_Witness ==
    \E t, u \in Threads :
        /\ t # u
        /\ threads[t].op = "Get" /\ threads[t].pc = "Unlock"
        /\ ~threads[t].ret.isnil /\ threads[t].ret.value = <<7, 0, 7, 7, 7>>
        /\ threads[u].op = "Set" /\ threads[u].pc = "Lock"
        /\ Len(hist) = 1

\* the keys set so far that bucket maps to b
HistKeysOf(b) == {k \in HistKeys : BucketOf(k) = b}

\* C11: after any sequence of Sets, the records reachable from each bucket's
\* root are whole records that hold exactly the keys set into that bucket,
\* each once, and at every one of them every key of the left subtree is
\* before its key in byte-wise lexicographic order and every key of the right
\* subtree is after it
C11_Ordering ==
    \A b \in DOMAIN buckets :
        LET tree == Tree(file, buckets, b)
            keys == HistKeysOf(b)
        IN  /\ Cardinality(tree) = Cardinality(keys)
            /\ KeysAt(file, tree) = keys
            /\ \A o \in tree :
                  LET r == RecordAt(file, o).rec IN
                  /\ Written(file, o)
                  /\ \A k \in KeysAt(file, Reach(file, r.left, Depth)) :
                        LexLess(k, r.key)
                  /\ \A k \in KeysAt(file, Reach(file, r.right, Depth)) :
                        LexLess(r.key, k)

\* C11 witness: a root with a left and a right child, the left one a key
\* that is a prefix of no other and the right one longer than the root's
C11_Witness ==
    /\ nbuckets = 0 /\ Len(hist) = 3
    /\ LET r == RecordAt(file, buckets[0]).rec IN
       /\ r.key = <<1>> /\ r.left # 0 /\ r.right # 0
       /\ RecordAt(file, r.left).rec.key = <<0, 0>>
       /\ RecordAt(file, r.right).rec.key = <<1, 0>>

\* the places of the I/O call named call in the last operation
IoAt(call) == {i \in 1..Len(last.io) : last.io[i].call = call}

\* C12: within a Set the new record is written before the directory or the
\* parent's link is rewritten to point at it, so that whatever call failed,
\* every non-zero entry of the bucket array and every non-zero link of a
\* record reachable from one is the offset of a whole record
C12_RecordBeforeLink ==
    /\ last.op = "Set" =>
          \A i \in IoAt("writeRecord"), j \in IoAt("writeBuckets") \cup IoAt("writeLink") :
              i < j
    /\ created =>
          \A b \in DOMAIN buckets : \A o \in Tree(file, buckets, b) : Written(file, o)

\* C13: no step changes the exponent, in memory or in the file's header, or
\* the number of buckets; an entry of the bucket array or of the directory in
\* the file that is not 0 stays as it is; and an entry of the bucket array
\* changes only in a Set of the first key of its bucket, from 0
C13_WriteOnceRoots ==
    [][/\ nbuckets' = nbuckets /\ Header(file') = Header(file)
       /\ DOMAIN buckets' = DOMAIN buckets
       /\ \A b \in DOMAIN buckets :
             /\ buckets[b] # 0 => buckets'[b] = buckets[b]
             /\ DirEntry(file, b) # 0 => DirEntry(file', b) = DirEntry(file, b)
             /\ buckets'[b] # buckets[b] =>
                   /\ buckets[b] = 0 /\ HistKeysOf(b) = {}
                   /\ last'.op = "Set" /\ BucketOf(last'.key) = b
                   /\ Len(hist') = Len(hist) + 1]_vars

\* C13 witness: the root of bucket 0 is still the first record of the file
\* after a second key of bucket 0 and a key of bucket 1 were set and read
C13_Witness ==
    /\ nbuckets = 1 /\ Len(hist) = 3 /\ last.op = "Get"
    /\ buckets[0] = 20 /\ DirEntry(file, 0) = 20 /\ buckets[1] > 20
    /\ Cardinality(HistKeysOf(0)) = 2 /\ BucketOf(hist[1].key) = 0

\* the offsets of the records of all trees
Records(f, bs) == UNION {Tree(f, bs, b) : b \in DOMAIN bs}

\* the places where file g differs from the file f it grew from
Changed(f, g) == {i \in 1..Len(f) : g[i] # f[i]}

\* the step is a Set that rewrites a parent to link its new record
LinkingSet ==
    /\ last'.op = "Set" /\ Len(hist') = Len(hist) + 1
    /\ \E i \in 1..Len(last'.io) : last'.io[i].call = "writeLink"

\* the record at offset p is the same in files f and g but for one link,
\* which is 0 in f and off in g
OneLinkSet(f, g, p, off) ==
    LET r == RecordAt(f, p).rec
        q == RecordAt(g, p).rec
    IN  /\ Written(f, p) /\ Written(g, p)
        /\ q.size = r.size /\ q.key = r.key /\ q.value = r.value
        /\ \/ r.left = 0 /\ q.left = off /\ q.right = r.right
           \/ r.right = 0 /\ q.right = off /\ q.left = r.left

\* C14: a Set that links its record under a parent changes, of the bytes the
\* file had, only bytes of the parent, all inside the size it was allocated,
\* which no other record overlaps; the parent keeps its size, key, value and
\* one link, and its other link goes from 0 to the new record's offset;
\* every other record reads as before
C14_RewriteFrame ==
    [][LinkingSet =>
          \E p \in Records(file, buckets) :
              LET size == RecordAt(file, p).rec.size IN
              /\ OneLinkSet(file, file', p, Len(file))
              /\ p + size <= Len(file)
              /\ Changed(file, file') \subseteq (p + 1)..(p + size)
              /\ Changed(file, file') # {}
              /\ \A o \in Records(file, buckets) \ {p} :
                    /\ o \notin p..(p + size - 1)
                    /\ RecordAt(file', o) = RecordAt(file, o)]_vars

\* C14 witness: the root, which has a left child stored right behind it, was
\* rewritten to take the record at the end of the file as its right child
C14_Witness ==
    /\ last.op = "Set" /\ Len(hist) = 3 /\ nbuckets = 0
    /\ \E i \in 1..Len(last.io) : last.io[i].call = "writeLink"
    /\ LET r == RecordAt(file, buckets[0]).rec IN
       /\ r.left = buckets[0] + r.size
       /\ r.right > r.left
       /\ Written(file, r.right)
       /\ r.right + RecordAt(file, r.right).rec.size = Len(file)

\* the bytes of the record at offset o of file f, padding included, as far
\* as file g has them too
Bytes(f, g, o) == SubSeq(g, o + 1, o + RecordAt(f, o).rec.size)

\* C15: a Set of a key of bucket b leaves every other bucket c as it was:
\* its entry in the bucket array and in the directory of the file, every
\* byte of every record of its tree, and the result of Get for each of its
\* keys, set or not
C15_BucketIndependence ==
    [][(last'.op = "Set" /\ Len(hist') = Len(hist) + 1) =>
          \A c \in DOMAIN buckets \ {BucketOf(last'.key)} :
              /\ buckets'[c] = buckets[c]
              /\ DirEntry(file', c) = DirEntry(file, c)
              /\ \A o \in Tree(file, buckets, c) :
                    /\ Written(file, o)
                    /\ Bytes(file, file', o) = Bytes(file, file, o)
              /\ \A k \in Keys :
                    BucketOf(k) = c =>
                        GetOp(file', buckets', nbuckets, k, {})
                          = GetOp(file, buckets, nbuckets, k, {})]_vars

\* C15 witness: a key of bucket 0 was linked under the first record of the
\* file, which is followed by the root of bucket 1
C15_Witness ==
    /\ nbuckets = 1 /\ Len(hist) = 3 /\ last.op = "Set"
    /\ BucketOf(hist[1].key) = 0 /\ BucketOf(hist[2].key) = 1
    /\ BucketOf(hist[3].key) = 0 /\ hist[3].key # hist[1].key
    /\ buckets[1] = buckets[0] + RecordAt(file, buckets[0]).rec.size
    /\ Links(file, buckets[0]) # {}

\* Natural numbers up to 2^48, beyond the integers of TLC, as three
\* digits in base 65536, the most significant first.

\* the integer 0 <= n < 2^31
Num(n) == <<0, n \div 65536, n % 65536>>

\* the uint32 x
NumOf32(x) == <<0, x[1], x[2]>>

\* a + b
Plus(a, b) ==
    LET d3 == a[3] + b[3]
        d2 == a[2] + b[2] + d3 \div 65536
    IN  <<a[1] + b[1] + d2 \div 65536, d2 % 65536, d3 % 65536>>

\* a < b
Below(a, b) ==
    \/ a[1] < b[1]
    \/ a[1] = b[1] /\ a[2] < b[2]
    \/ a[1] = b[1] /\ a[2] = b[2] /\ a[3] < b[3]

\* the uint32 x is a power of two
PowerOfTwo32(x) ==
    \E i \in 0..15 : x = <<0, 2 ^ i>> \/ x = <<2 ^ i, 0>>

\* the bytes a record with a key of keyl and a value of vall bytes holds
Payload(keyl, vall) == Plus(Plus(Num(HeaderLen), Num(keyl)), Num(vall))

\* C16: for every key length and value length the size of a new record is a
\* power of two, it is at least the 28 + k + v bytes of the record and less
\* than twice that (the smallest such power), and nextPowerTwo(0) = 1
C16_AllocatedSize ==
    last.op = "nextPowerTwo" =>
        LET p == Payload(last.keyl, last.vall) IN
        /\ PowerOfTwo32(last.size)
        /\ ~Below(NumOf32(last.size), p)
        /\ Below(NumOf32(last.size), Plus(p, p))
        /\ last.x = <<0, 0>> => last.size = <<0, 1>>

\* file f starts with the header and directory of exponent nb and bucket
\* array bs
Mirror(f, nb, bs) ==
    /\ DOMAIN bs = 0..(NumBuckets(nb) - 1)
    /\ Len(f) >= 4 + 8 * NumBuckets(nb)
    /\ Header(f) = nb
    /\ \A b \in DOMAIN bs : DirEntry(f, b) = bs[b]

\* C17: after Create and whenever no Set is running, the file starts with
\* the exponent and a directory equal to the bucket array, entry for entry;
\* while a Set runs the two differ only between its change of the bucket
\* array and the rewrite of header and directory, its very next step
C17_DirectoryMirror ==
    \/ Mirror(file, nbuckets, buckets)
    \/ \E t \in Threads :
          mu = t /\ threads[t].op = "Set" /\ threads[t].pc = "writeBuckets"

\* C17 witness: the second Set has rewritten the directory, which now holds
\* two roots, and not yet written its record
C17_Witness ==
    /\ nbuckets = 1 /\ Len(hist) = 2
    /\ \E t \in Threads :
          /\ mu = t /\ threads[t].pc = "writeRecord"
          /\ buckets[1] = threads[t].offset /\ DirEntry(file, 1) = buckets[1]
    /\ buckets[0] # 0 /\ DirEntry(file, 0) = buckets[0]

\* the offsets of the records binSearch(key, rec) reads, in the order in
\* which it reads them
RECURSIVE Visits(_, _, _)
Visits(f, key, rec) ==
    LET s == binStep(f, key, rec, FALSE) IN
    IF s.again THEN <<rec.offset>> \o Visits(f, key, s.rec) ELSE <<rec.offset>>

\* the first offset behind the header and the directory
RecordLog == 4 + 8 * NumBuckets(nbuckets)

\* C18: every root and every record of a tree lies behind the directory (so
\* none is at offset 0), every link that is not 0 is greater than the offset
\* of the record that holds it, and the tree walk of Get and Set for any key
\* reads records at strictly growing offsets, each at most once, and ends
C18_Acyclic ==
    \A b \in DOMAIN buckets :
        LET tree == Tree(file, buckets, b)
            size == Cardinality(tree)
        IN  /\ \A o \in tree :
                  /\ o >= RecordLog
                  /\ \A l \in Links(file, o) : l > o /\ l \in tree
            /\ \A k \in Keys :
                  (buckets[b] # 0 /\ BucketOf(k) = b) =>
                      LET v == Visits(file, k, EmptyRecord(buckets[b])) IN
                      /\ v[1] = buckets[b]
                      /\ \A i \in 1..(Len(v) - 1) : v[i] < v[i + 1]
                      /\ Len(v) <= size

\* C18 witness: three records linked one under the other, and a key whose
\* walk reads all three
C18_Witness ==
    /\ nbuckets = 0 /\ buckets[0] # 0
    /\ Len(Visits(file, <<1, 0>>, EmptyRecord(buckets[0]))) = 3
    /\ \E o \in Tree(file, buckets, 0) :
          Links(file, o) # {} /\ Links(file, o) \cap Links(file, buckets[0]) = {}

\* the step is a Set in which the Seek to the end of the file or a read of
\* the tree walk failed
EarlyError ==
    /\ last'.op = "Set" /\ Len(hist') = Len(hist) + 1
    /\ \E i \in 1..Len(last'.io) :
          last'.io[i].call \in {"Seek", "ReadAt"} /\ ~last'.io[i].ok

\* C19: a Set that fails in its Seek or in a read of its tree walk returns
\* the error and leaves the file and the bucket array as they were; a Get
\* leaves them as they were whatever it returns, and a Get that fails with a
\* read error returns a nil value with the error
C19_EarlyError ==
    [][/\ EarlyError =>
             /\ last'.err /\ hist'[Len(hist')].err
             /\ file' = file /\ buckets' = buckets /\ nbuckets' = nbuckets
             /\ last'.io[Len(last'.io)].call \in {"Seek", "ReadAt"}
       /\ (last'.op = "Get" /\ hist' = hist) =>
             /\ file' = file /\ buckets' = buckets /\ nbuckets' = nbuckets
             /\ last'.err => last'.isnil /\ last'.value = <<>>]_vars

\* C19 witness: a Set into a bucket that holds a record returned the error
\* of the read of that record, its only call after the Seek; the key set
\* before is still found
C19_Witness ==
    /\ last.op = "Set" /\ last.err /\ Len(hist) = 2 /\ ~hist[1].err
    /\ last.io = <<[call |-> "Seek", ok |-> TRUE], [call |-> "ReadAt", ok |-> FALSE]>>
    /\ LET root == buckets[BucketOf(last.key)] IN
       /\ root # 0 /\ Written(file, root)
       /\ GetOp(file, buckets, nbuckets, hist[1].key, {}).value = hist[1].value

====
